---- MODULE Spec2Model ----
(***************************************************************************)
(* A model of composlang's resumable corpus reader (src/src/corpus.py) and *)
(* of the per-sentence extraction helpers (src/src/corpus.py and the older *)
(* src/corpus.py).                                                         *)
(*                                                                         *)
(* Spec       : Corpus readers over the same files, one after the other,   *)
(*              each with its own checkpoint tag.  The first ones never    *)
(*              crash (the reference reads, one per batch size), the last  *)
(*              may crash and be resumed from its durable checkpoint.      *)
(* SpecDigest : the pure per-sentence functions applied to every sentence  *)
(*              of a bounded universe.                                     *)
(* SpecMalformed : the readers on malformed lines, schemas and checkpoints. *)
(* SpecAnalysis : a CompositionAnalysis (src/composlang/composition.py)     *)
(*              built from a store, its methods called in any order.       *)
(* SpecCsv    : the same engine, which also reads its frames from files    *)
(*              (read_csv), those it would write or those of another run.  *)
(* SpecOpen   : Corpus objects constructed one after the other on files    *)
(*              and checkpoint tags, and their to_cache.                   *)
(***************************************************************************)
EXTENDS Integers, Sequences, FiniteSets, TLC

VARIABLES
    files,          \* Corpus._files: sorted list of [name, lines]
    stream,         \* the lines fileinput.input(files=_files) yields, with their file
    fmt_sid,        \* type of the sentence_id column in Corpus._fmt: "int" | "str",
                    \* or "absent" when the schema has no such column
    n_sentences,    \* Corpus._n_sentences (NoLimit stands for float('inf'))
    batch_size,     \* batch_size of the read() call in progress
    run,            \* number of the reader; the last one may crash
    ref,            \* what the reference readers ended with, by batch size
    pc,             \* position of the reader's control
    exc,            \* exception that ended read(), or NoExc
    token_stats,    \* Corpus._token_stats
    pair_stats,     \* Corpus._pair_stats
    lines_read,     \* Corpus._lines_read
    sentences_seen, \* Corpus._sentences_seen
    lines_to_skip,  \* local of read()
    fi_read,        \* lines pulled so far from fileinput
    fi_filename,    \* fileinput.filename()
    peeked,         \* the peekable holds line number fi_read in its cache
    this_sentence,  \* local of read()
    sentence_batch, \* local of read()
    parse_sid,      \* parse['sentence_id'] of the last processed line
    next_sid,       \* next_parse['sentence_id'] of the last processed line
    cur_line,       \* 1-based index of the last processed line, 0 if none
    stats,          \* results of the Parallel call, in submission order
    cache,          \* committed content of the SqliteDict
    pending,        \* writes to the SqliteDict not yet committed
    assembled,      \* history: sentences appended to sentence_batch by this read()
    store_before,   \* history: the two tables when the batch was dispatched
    crashed,        \* history: the last reader has crashed and was resumed
    sent,           \* SpecDigest: the sentence given to the extraction helpers
    child_upos,     \* SpecDigest: arguments of _extract_upos_pairs
    parent_upos,
    op,             \* SpecDigest: the helper that ran last
    out_ts,         \* SpecDigest: token table returned by _digest_sentence
    out_ps,         \* SpecDigest: edge table returned by _digest_sentence
    out_edges,      \* SpecDigest: edges or pairs produced by the helper
    store,          \* SpecAnalysis: the tables of the corpus given to the engine
    engine,         \* CompositionAnalysis: n_tokens, token_stats, pair_stats,
                    \* skip_pair_stats
    child_df,       \* CompositionAnalysis.child_df: list of rows, a row a record
    parent_df,      \* CompositionAnalysis.parent_df
    pair_df,        \* CompositionAnalysis.pair_df
    skip_pair_df,   \* CompositionAnalysis.skip_pair_df
    matrix,         \* CompositionAnalysis.matrix
    matrix_args,    \* history: the call that built the matrix
    acall,          \* the last call on the engine, its arguments and exception
    apc,            \* "new" | "ready" | "failed": the engine's construction
    argument,       \* SpecOpen: directory_or_filelist as given to Corpus(...)
    cache_tag,      \* SpecOpen: Corpus._cache_tag
    checkpoints     \* SpecOpen: the items of the SqliteDict of every tag

configVars == <<files, stream, fmt_sid, n_sentences>>
readerVars == <<batch_size, run, ref, pc, exc, token_stats, pair_stats, lines_read,
                sentences_seen, lines_to_skip, fi_read, fi_filename, peeked,
                this_sentence, sentence_batch, parse_sid, next_sid, cur_line, stats,
                cache, pending, assembled, store_before, crashed>>
digestVars == <<sent, child_upos, parent_upos, op, out_ts, out_ps, out_edges>>
analysisVars == <<store, engine, child_df, parent_df, pair_df, skip_pair_df, matrix,
                  matrix_args, acall, apc>>
openVars == <<argument, cache_tag, checkpoints>>
vars == <<configVars, readerVars, digestVars, analysisVars, openVars>>

----------------------------------------------------------------------------
(* Bounds of the model *)

MaxLines == 3      \* token lines in the whole corpus
MaxSentLen == 3    \* words of a sentence given to the extraction helpers
MaxPairs == 2      \* direct pairs of the two categories counted by a store
MaxSkipPairs == 1  \* skip pairs of the two categories counted by a store

NoLimit == 0       \* n_sentences=None: `n_sentences or float('inf')`
Limits == {NoLimit, 1}
RefBatches == <<1, 2>>   \* batch sizes of the reference reads, in order
BatchSizes == {RefBatches[i] : i \in 1..Len(RefBatches)}
LastRun == Len(RefBatches) + 1
FileNames == <<"f1", "f2">>
RawIds == {"1", "2"}
Texts == {"a", "b"}
Uposes == {"ADJ", "NOUN"}

None == "None"    \* no file opened yet
NoExc == "none"

----------------------------------------------------------------------------
(* collections.Counter *)

EmptyCounter == [k \in {} |-> 0]

Count(c, k) == IF k \in DOMAIN c THEN c[k] ELSE 0

\* Counter.update(other): key-wise addition
CounterUpdateOverwrite(c, d) ==
    [k \in DOMAIN c \cup DOMAIN d |-> IF k \in DOMAIN d THEN d[k] ELSE c[k]]

CounterUpdate(c, d) ==
    [k \in DOMAIN c \cup DOMAIN d |-> Count(c, k) + Count(d, k)]

\* Counter(iterable): one increment per element
RECURSIVE CounterOf(_)
CounterOf(s) ==
    IF s = << >> THEN EmptyCounter
    ELSE CounterUpdate(CounterOf(SubSeq(s, 1, Len(s) - 1)),
                       [k \in {s[Len(s)]} |-> 1])

RECURSIVE CounterTotal(_)
CounterTotal(c) ==
    IF DOMAIN c = {} THEN 0
    ELSE LET k == CHOOSE x \in DOMAIN c : TRUE
         IN c[k] + CounterTotal([x \in DOMAIN c \ {k} |-> c[x]])

----------------------------------------------------------------------------
(* Sentences and the per-sentence helpers *)

\* Word(text, upos)
Word(w) == <<w.text, w.upos>>

\* seq[i] of a Python list: 0-based, negative indices count from the end
PyItem(s, i) == IF i < 0 THEN s[Len(s) + i + 1] ELSE s[i + 1]

\* the loop of _extract_edges_from_sentence over the first k words; each edge
\* is kept with the position ix of its child in the sentence
RECURSIVE EdgesUpTo(_, _)
EdgesUpTo(sentence, k) ==
    IF k = 0 THEN << >>
    ELSE LET w == sentence[k]
         IN IF w.head = 0
            THEN EdgesUpTo(sentence, k - 1)
            ELSE Append(EdgesUpTo(sentence, k - 1),
                        [ix |-> k, child |-> Word(w),
                         parent |-> Word(PyItem(sentence, w.head - 1))])

\* the same loop without the test for the root
RECURSIVE EdgesNoRootCheck(_, _)
EdgesNoRootCheck(sentence, k) ==
    IF k = 0 THEN << >>
    ELSE LET w == sentence[k]
         IN Append(EdgesNoRootCheck(sentence, k - 1),
                   [ix |-> k, child |-> Word(w),
                    parent |-> Word(PyItem(sentence, w.head - 1))])

\* the (child, parent) pairs of a list of edges
Pairs(edges) == [i \in 1..Len(edges) |-> <<edges[i].child, edges[i].parent>>]

ExtractEdgesNoRootCheck(sentence) == Pairs(EdgesNoRootCheck(sentence, Len(sentence)))

\* Corpus._extract_edges_from_sentence
ExtractEdgesFromSentence(sentence) == Pairs(EdgesUpTo(sentence, Len(sentence)))

\* Corpus._extract_edges of src/corpus.py: the same loop as a generator
RECURSIVE ExtractEdges(_, _)
ExtractEdges(sentence, k) ==
    IF k = 0 THEN << >>
    ELSE LET w == sentence[k]
         IN IF w.head = 0
            THEN ExtractEdges(sentence, k - 1)
            ELSE Append(ExtractEdges(sentence, k - 1),
                        [ix |-> k, child |-> Word(w),
                         parent |-> Word(PyItem(sentence, w.head - 1))])

\* Corpus._extract_upos_pairs of src/corpus.py over the first k words
RECURSIVE ExtractUposPairs(_, _, _, _)
ExtractUposPairs(sentence, c_upos, p_upos, k) ==
    IF k = 0 THEN << >>
    ELSE LET w == sentence[k]
             p == PyItem(sentence, w.head - 1)
             rest == ExtractUposPairs(sentence, c_upos, p_upos, k - 1)
         IN IF w.upos = c_upos /\ p.upos = p_upos
            THEN Append(rest, [ix |-> k, child |-> Word(w), parent |-> Word(p)])
            ELSE rest

\* Corpus._digest_sentence
DigestSentence(sentence) ==
    [ts |-> CounterOf([i \in 1..Len(sentence) |-> Word(sentence[i])]),
     ps |-> CounterOf(ExtractEdgesFromSentence(sentence))]

----------------------------------------------------------------------------
(* Input lines, fileinput and the line segmenter *)

TokenKinds == {[text |-> "a", upos |-> "ADJ", head |-> 1],
               [text |-> "b", upos |-> "NOUN", head |-> 0]}

\* a well-formed token line: the columns of the schema that the reader uses;
\* shape tells a token line from a blank line ("blank"), a line with fewer
\* fields than the schema ("short") and a line whose id or head column is no
\* number ("nocast")
Lines == {[sid |-> s, text |-> t.text, upos |-> t.upos, head |-> t.head,
           shape |-> "token"] : s \in RawIds, t \in TokenKinds}

\* lines that are not token lines
BlankLine == [sid |-> "", text |-> "", upos |-> "", head |-> 0, shape |-> "blank"]
ShortLine == [sid |-> "1", text |-> "b", upos |-> "", head |-> 0, shape |-> "short"]
NoCastLine == [sid |-> "1", text |-> "b", upos |-> "NOUN", head |-> 0, shape |-> "nocast"]

\* dummy_line: "__EOF__" followed by the numbers 0..15, one per column
DummyLine == [sid |-> "__EOF__", text |-> "0", upos |-> "4", head |-> 3,
              shape |-> "token"]

\* the lines of all files in the order fileinput.input(files=...) yields them
RECURSIVE Flat(_)
Flat(fs) ==
    IF fs = << >> THEN << >>
    ELSE [i \in 1..Len(fs[1].lines) |-> [file |-> fs[1].name, line |-> fs[1].lines[i]]]
         \o Flat(Tail(fs))

Total == Len(stream)
FileOf(k) == stream[k].file
LineAt(k) == stream[k].line

\* int(s) and str(n) on the literals of the model
IntLiterals == {"0", "1", "2", "3"}
IntOf(s) == CHOOSE n \in 0..3 : <<"0", "1", "2", "3">>[n + 1] = s
StrOf(n) == <<"0", "1", "2", "3">>[n + 1]

\* segment_line: the exception it raises on the line, or NoExc.  The columns
\* are cast from left to right, the sentence id first: ''.split(sep) is [''],
\* int() of a string that is no number raises ValueError, a missing column
\* raises IndexError
SegmentExc(line) ==
    IF fmt_sid = "int" /\ line.sid \notin IntLiterals THEN "ValueError"
    ELSE IF line.shape \in {"blank", "short"} THEN "IndexError"
    ELSE IF line.shape = "nocast" THEN "ValueError"
    ELSE NoExc

\* segment_line: does every cast succeed?
SegmentOk(line) == SegmentExc(line) = NoExc

\* the exception on the way from `for line in f` to line 205: that of
\* segment_line, or the KeyError of parse['sentence_id']
LineExc(line) ==
    IF SegmentExc(line) # NoExc THEN SegmentExc(line)
    ELSE IF fmt_sid = "absent" THEN "KeyError"
    ELSE NoExc

\* segment_line: the labeled record
SegmentLine(line) ==
    [sentence_id |-> IF fmt_sid = "int" THEN IntOf(line.sid) ELSE line.sid,
     text |-> line.text, upos |-> line.upos, head |-> line.head]

\* f"{fileinput.filename()}_{parse['sentence_id']}"
CompositeId(filename, parse) ==
    filename \o "_" \o
    (IF fmt_sid = "int" THEN StrOf(parse.sentence_id) ELSE parse.sentence_id)

\* index of the line that `for line in f` yields next
NextIndex == IF peeked THEN fi_read ELSE fi_read + 1
HasNext == peeked \/ fi_read < Total

\* fileinput.filename() once `line` has been taken from the peekable: the file
\* of the line fileinput yielded last
CurrentFilename == IF peeked THEN fi_filename ELSE FileOf(fi_read + 1)

\* fileinput.filename() once f.peek() has pulled the line after line k, if any
LookaheadFilenameStale(k) == CurrentFilename

LookaheadFilename(k) == IF k < Total THEN FileOf(k + 1) ELSE CurrentFilename

\* f.peek(dummy_line())
PeekLine(k) == IF k < Total THEN LineAt(k + 1) ELSE DummyLine

\* [sent] = Document([this_sentence]).sentences: one word per buffered record
MakeSentence(records) ==
    [i \in 1..Len(records) |->
        [text |-> records[i].text, upos |-> records[i].upos, head |-> records[i].head]]

\* x >= n_sentences
LimitReached(x) == n_sentences # NoLimit /\ x >= n_sentences

\* sum(len(s.words) for s in sentence_batch)
BatchLinesWrong(sb) == Len(sb)

RECURSIVE BatchLines(_)
BatchLines(sb) == IF sb = << >> THEN 0 ELSE Len(sb[1]) + BatchLines(Tail(sb))

----------------------------------------------------------------------------
(* The checkpoint store *)

EmptyCache == [k \in {} |-> 0]

\* a snapshot of the position counters alone
SnapshotCountersOnly == [sentences_seen |-> sentences_seen, lines_read |-> lines_read]

\* the items to_cache stores
Snapshot ==
    [sentences_seen |-> sentences_seen, lines_read |-> lines_read,
     pair_stats |-> pair_stats, token_stats |-> token_stats]

\* SqliteDict.commit(): the pending writes become durable
Committed(c, p) == [k \in DOMAIN c \cup DOMAIN p |-> IF k \in DOMAIN p THEN p[k] ELSE c[k]]

\* load_cache(allow_empty=True): each stored attribute replaces the default
Loaded(attr, default) == IF attr \in DOMAIN cache THEN cache[attr] ELSE default

----------------------------------------------------------------------------
(* The reader: Corpus.__init__ and Corpus.read *)

\* the state of a process that holds no Corpus object
NoReader ==
    /\ exc' = NoExc
    /\ token_stats' = EmptyCounter /\ pair_stats' = EmptyCounter
    /\ lines_read' = 0 /\ sentences_seen' = 0 /\ lines_to_skip' = 0
    /\ fi_read' = 0 /\ fi_filename' = None /\ peeked' = FALSE
    /\ this_sentence' = << >> /\ sentence_batch' = << >>
    /\ parse_sid' = None /\ next_sid' = None /\ cur_line' = 0
    /\ stats' = << >> /\ pending' = EmptyCache
    /\ assembled' = << >>
    /\ store_before' = [token_stats |-> EmptyCounter, pair_stats |-> EmptyCounter]

\* Corpus(...): empty tables, then load_cache()
Construct ==
    /\ pc = "new"
    /\ token_stats' = Loaded("token_stats", EmptyCounter)
    /\ pair_stats' = Loaded("pair_stats", EmptyCounter)
    /\ lines_read' = Loaded("lines_read", 0)
    /\ sentences_seen' = Loaded("sentences_seen", 0)
    /\ pc' = "ready"
    /\ UNCHANGED <<configVars, openVars, digestVars, analysisVars, batch_size, run, ref, exc, lines_to_skip,
                   fi_read, fi_filename, peeked, this_sentence, sentence_batch,
                   parse_sid, next_sid, cur_line, stats, cache, pending, assembled,
                   store_before, crashed>>

\* read(): up to the head of the for loop
ReadStart ==
    /\ pc = "ready"
    /\ lines_to_skip' = lines_read
    /\ sentence_batch' = << >> /\ this_sentence' = << >>
    /\ fi_read' = 0 /\ fi_filename' = None /\ peeked' = FALSE
    /\ assembled' = << >>
    /\ pc' = "loop"
    /\ UNCHANGED <<configVars, openVars, digestVars, analysisVars, batch_size, run, ref, exc, token_stats,
                   pair_stats, lines_read, sentences_seen, parse_sid, next_sid,
                   cur_line, stats, cache, pending, store_before, crashed>>

\* one iteration that skips a line accounted for by the loaded checkpoint
SkipLine ==
    /\ pc = "loop" /\ lines_to_skip > 0 /\ HasNext
    /\ fi_read' = NextIndex /\ peeked' = FALSE
    /\ fi_filename' = CurrentFilename
    /\ lines_to_skip' = lines_to_skip - 1
    /\ UNCHANGED <<configVars, openVars, digestVars, analysisVars, batch_size, run, ref, pc, exc, token_stats,
                   pair_stats, lines_read, sentences_seen, this_sentence,
                   sentence_batch, parse_sid, next_sid, cur_line, stats, cache,
                   pending, assembled, store_before, crashed>>

\* one iteration of the for loop on a line that is not skipped, up to the
\* dispatch of a batch, the end of the iteration or an exception
ProcessLine ==
    /\ pc = "loop" /\ lines_to_skip = 0 /\ HasNext
    /\ LET k == NextIndex
           okCur == LineExc(LineAt(k)) = NoExc
           parse == SegmentLine(LineAt(k))
           psid == CompositeId(CurrentFilename, parse)
           buf == Append(this_sentence, [parse EXCEPT !.sentence_id = psid])
           okNext == SegmentOk(PeekLine(k))
           nsid == CompositeId(LookaheadFilename(k), SegmentLine(PeekLine(k)))
           batch == Append(sentence_batch, MakeSentence(buf))
           flush == \/ Len(batch) >= batch_size
                    \/ LimitReached(sentences_seen + Len(batch))
       IN /\ cur_line' = k
          /\ IF ~okCur
             THEN \* segment_line(line) or parse['sentence_id'] raises
                  /\ fi_read' = k /\ peeked' = FALSE /\ fi_filename' = CurrentFilename
                  /\ exc' = LineExc(LineAt(k)) /\ pc' = "done"
                  /\ UNCHANGED <<this_sentence, sentence_batch, parse_sid, next_sid,
                                 assembled, stats, store_before>>
             ELSE /\ fi_read' = (IF k < Total THEN k + 1 ELSE k)
                  /\ peeked' = (k < Total)
                  /\ fi_filename' = LookaheadFilename(k)
                  /\ parse_sid' = psid
                  /\ IF ~okNext
                     THEN \* segment_line(f.peek(dummy_line())) raises
                          /\ this_sentence' = buf
                          /\ exc' = SegmentExc(PeekLine(k)) /\ pc' = "done"
                          /\ UNCHANGED <<sentence_batch, next_sid, assembled, stats,
                                         store_before>>
                     ELSE /\ next_sid' = nsid
                          /\ exc' = exc
                          /\ IF nsid # psid
                             THEN /\ assembled' = Append(assembled, MakeSentence(buf))
                                  /\ sentence_batch' = batch
                                  /\ IF flush
                                     THEN \* digest_sentencebatch(sentence_batch)
                                          /\ this_sentence' = buf
                                          /\ stats' = << >>
                                          /\ store_before' =
                                               [token_stats |-> token_stats,
                                                pair_stats |-> pair_stats]
                                          /\ pc' = "digest"
                                     ELSE /\ this_sentence' = << >>
                                          /\ pc' = (IF LimitReached(sentences_seen)
                                                    THEN "to_cache_243" ELSE "loop")
                                          /\ UNCHANGED <<stats, store_before>>
                             ELSE /\ this_sentence' = buf
                                  /\ pc' = (IF LimitReached(sentences_seen)
                                            THEN "to_cache_243" ELSE "loop")
                                  /\ UNCHANGED <<sentence_batch, assembled, stats,
                                                 store_before>>
    /\ UNCHANGED <<configVars, openVars, digestVars, analysisVars, batch_size, run, ref, token_stats,
                   pair_stats, lines_read, sentences_seen, lines_to_skip, cache,
                   pending, crashed>>

\* the for loop finds no further line: read() returns
LoopEnd ==
    /\ pc = "loop" /\ ~HasNext
    /\ pc' = "done"
    /\ UNCHANGED <<configVars, openVars, digestVars, analysisVars, batch_size, run, ref, exc, token_stats,
                   pair_stats, lines_read, sentences_seen, lines_to_skip, fi_read,
                   fi_filename, peeked, this_sentence, sentence_batch, parse_sid,
                   next_sid, cur_line, stats, cache, pending, assembled,
                   store_before, crashed>>

----------------------------------------------------------------------------
(* digest_sentencebatch, to_cache and the end of an iteration *)

\* a worker of the Parallel call returns the digest of sentence i; the workers
\* finish in any order and the results are kept in submission order
DigestOne(i) ==
    /\ pc = "digest"
    /\ i \in 1..Len(sentence_batch) /\ i \notin DOMAIN stats
    /\ stats' = [j \in DOMAIN stats \cup {i} |->
                    IF j = i THEN DigestSentence(sentence_batch[i]) ELSE stats[j]]
    /\ UNCHANGED <<configVars, openVars, digestVars, analysisVars, batch_size, run, ref, pc, exc, token_stats,
                   pair_stats, lines_read, sentences_seen, lines_to_skip, fi_read,
                   fi_filename, peeked, this_sentence, sentence_batch, parse_sid,
                   next_sid, cur_line, cache, pending, assembled, store_before,
                   crashed>>

\* a merge that starts from an empty table instead of the reader's
RECURSIVE MergedTokensReset(_, _)
MergedTokensReset(st, k) ==
    IF k = 0 THEN EmptyCounter ELSE CounterUpdate(MergedTokensReset(st, k - 1), st[k].ts)

\* for token_stat, pair_stat in stats: update the tables with the first k results
RECURSIVE MergedTokens(_, _)
MergedTokens(st, k) ==
    IF k = 0 THEN token_stats ELSE CounterUpdate(MergedTokens(st, k - 1), st[k].ts)

RECURSIVE MergedPairs(_, _)
MergedPairs(st, k) ==
    IF k = 0 THEN pair_stats ELSE CounterUpdate(MergedPairs(st, k - 1), st[k].ps)

\* the merge loop of digest_sentencebatch, once every worker has returned
MergeStats ==
    /\ pc = "digest"
    /\ DOMAIN stats = 1..Len(sentence_batch)
    /\ token_stats' = MergedTokens(stats, Len(sentence_batch))
    /\ pair_stats' = MergedPairs(stats, Len(sentence_batch))
    /\ pc' = "advance"
    /\ UNCHANGED <<configVars, openVars, digestVars, analysisVars, batch_size, run, ref, exc, lines_read,
                   sentences_seen, lines_to_skip, fi_read, fi_filename, peeked,
                   this_sentence, sentence_batch, parse_sid, next_sid, cur_line,
                   stats, cache, pending, assembled, store_before, crashed>>

\* the counters move on by the batch and the batch is emptied
Advance ==
    /\ pc = "advance"
    /\ lines_read' = lines_read + BatchLines(sentence_batch)
    /\ sentences_seen' = sentences_seen + Len(sentence_batch)
    /\ sentence_batch' = << >>
    /\ stats' = << >>
    /\ pc' = "to_cache_229"
    /\ UNCHANGED <<configVars, openVars, digestVars, analysisVars, batch_size, run, ref, exc, token_stats,
                   pair_stats, lines_to_skip, fi_read, fi_filename, peeked,
                   this_sentence, parse_sid, next_sid, cur_line, cache, pending,
                   assembled, store_before, crashed>>

\* to_cache(): the items are written to the SqliteDict ...
ToCache ==
    /\ pc \in {"to_cache_229", "to_cache_243"}
    /\ pending' = Snapshot
    /\ pc' = (IF pc = "to_cache_229" THEN "commit_229" ELSE "commit_243")
    /\ UNCHANGED <<configVars, openVars, digestVars, analysisVars, batch_size, run, ref, exc, token_stats,
                   pair_stats, lines_read, sentences_seen, lines_to_skip, fi_read,
                   fi_filename, peeked, this_sentence, sentence_batch, parse_sid,
                   next_sid, cur_line, stats, cache, assembled, store_before,
                   crashed>>

\* a variant that leaves the commit to the closing of the cache
CommitDeferred ==
    /\ pc \in {"commit_229", "commit_243"}
    /\ pc' = (IF pc = "commit_229" THEN "after_batch" ELSE "done")
    /\ UNCHANGED <<configVars, openVars, digestVars, analysisVars, batch_size, run, ref, exc, token_stats,
                   pair_stats, lines_read, sentences_seen, lines_to_skip, fi_read,
                   fi_filename, peeked, this_sentence, sentence_batch, parse_sid,
                   next_sid, cur_line, stats, cache, pending, assembled,
                   store_before, crashed>>

\* ... and committed; after line 243 the loop is left
Commit ==
    /\ pc \in {"commit_229", "commit_243"}
    /\ cache' = Committed(cache, pending)
    /\ pending' = EmptyCache
    /\ pc' = (IF pc = "commit_229" THEN "after_batch" ELSE "done")
    /\ UNCHANGED <<configVars, openVars, digestVars, analysisVars, batch_size, run, ref, exc, token_stats,
                   pair_stats, lines_read, sentences_seen, lines_to_skip, fi_read,
                   fi_filename, peeked, this_sentence, sentence_batch, parse_sid,
                   next_sid, cur_line, stats, assembled, store_before, crashed>>

\* the rest of the iteration after a batch was persisted
AfterBatch ==
    /\ pc = "after_batch"
    /\ this_sentence' = << >>
    /\ pc' = (IF LimitReached(sentences_seen) THEN "to_cache_243" ELSE "loop")
    /\ UNCHANGED <<configVars, openVars, digestVars, analysisVars, batch_size, run, ref, exc, token_stats,
                   pair_stats, lines_read, sentences_seen, lines_to_skip, fi_read,
                   fi_filename, peeked, sentence_batch, parse_sid, next_sid,
                   cur_line, stats, cache, pending, assembled, store_before,
                   crashed>>

\* __exit__: _close_cache() commits and closes, after a return or an exception
CloseCache ==
    /\ pc = "done"
    /\ cache' = Committed(cache, pending)
    /\ pending' = EmptyCache
    /\ pc' = "closed"
    /\ UNCHANGED <<configVars, openVars, digestVars, analysisVars, batch_size, run, ref, exc, token_stats,
                   pair_stats, lines_read, sentences_seen, lines_to_skip, fi_read,
                   fi_filename, peeked, this_sentence, sentence_batch, parse_sid,
                   next_sid, cur_line, stats, assembled, store_before, crashed>>

----------------------------------------------------------------------------
(* The environment: readers with fresh checkpoint tags, and crashes *)

\* a reference reader is through; a reader with another cache_tag is started
\* on the same files: the next reference reader, or the last reader with any
\* of the batch sizes
NextRun ==
    /\ run < LastRun /\ pc = "closed"
    /\ ref' = [ref EXCEPT ![batch_size] =
                 [token_stats |-> token_stats, pair_stats |-> pair_stats,
                  sentences_seen |-> sentences_seen, exc |-> exc, returned |-> TRUE]]
    /\ run' = run + 1
    /\ IF run + 1 < LastRun
       THEN batch_size' = RefBatches[run + 1]
       ELSE batch_size' \in BatchSizes
    /\ cache' = EmptyCache
    /\ pc' = "new"
    /\ NoReader
    /\ UNCHANGED <<configVars, openVars, digestVars, analysisVars, crashed>>

\* the process of the last reader dies, any number of times: what it held in
\* memory and what it had written without committing is gone, the committed
\* checkpoint stays
Crash ==
    /\ run = LastRun
    /\ pc \notin {"new", "closed"}
    /\ crashed' = TRUE
    /\ pc' = "new"
    /\ NoReader
    /\ UNCHANGED <<configVars, openVars, digestVars, analysisVars, batch_size, run, ref, cache>>

----------------------------------------------------------------------------

NoRef == [b \in BatchSizes |->
            [token_stats |-> EmptyCounter, pair_stats |-> EmptyCounter,
             sentences_seen |-> 0, exc |-> NoExc, returned |-> FALSE]]

\* the corpora: up to MaxLines lines in one file or split over two
Corpora ==
    LET seqs == UNION {[1..n -> Lines] : n \in 1..MaxLines}
    IN {<<[name |-> FileNames[1], lines |-> ls]>> : ls \in seqs}
       \cup {<<[name |-> FileNames[1], lines |-> SubSeq(ls, 1, c)],
               [name |-> FileNames[2], lines |-> SubSeq(ls, c + 1, Len(ls))]>> :
                 <<ls, c>> \in {x \in seqs \X (1..MaxLines) : x[2] < Len(x[1])}}

\* the files a Corpus can be given, each of one line
OpenFiles ==
    {[name |-> FileNames[i],
      lines |-> <<[sid |-> "1", text |-> "b", upos |-> "NOUN", head |-> 0,
                   shape |-> "token"]>>] : i \in 1..Len(FileNames)}

\* directory_or_filelist: some of the files, in any order
Arguments ==
    {a \in UNION {[1..n -> OpenFiles] : n \in 1..Len(FileNames)} :
        \A i, j \in 1..Len(a) : i # j => a[i] # a[j]}

\* sorted(files): by name, FileNames the names in their order
Sorted(a) ==
    LET rank(f) == CHOOSE i \in 1..Len(FileNames) : FileNames[i] = f.name
    IN CHOOSE r \in [1..Len(a) -> {a[i] : i \in 1..Len(a)}] :
          /\ \A i, j \in 1..Len(a) : i < j => rank(r[i]) < rank(r[j])

\* ' '.join(map(str, names))
RECURSIVE Joined(_)
Joined(names) ==
    IF Len(names) <= 1 THEN names
    ELSE <<names[1], " ">> \o Joined(Tail(names))

\* cache_tag=name as given
ExplicitTag(name) == [derived |-> FALSE, of |-> <<name>>]

\* the tag _get_cache derives: the digest of the joined names of _files,
\* different texts taken to have different digests
DerivedTag(fs) == [derived |-> TRUE, of |-> Joined([i \in 1..Len(fs) |-> fs[i].name])]

TagNames == {"t"}
NoTag == [derived |-> FALSE, of |-> << >>]    \* cache_tag=None

Tags == {ExplicitTag(n) : n \in TagNames} \cup {DerivedTag(Sorted(a)) : a \in Arguments}

OpenIdle ==
    /\ argument = << >>
    /\ cache_tag = NoTag
    /\ checkpoints = [t \in Tags |-> EmptyCache]

NoMatrix == [built |-> FALSE]    \* matrix = None
NoEngine == [built |-> FALSE]    \* no engine constructed
NoCall == [op |-> "none", skip |-> FALSE, stat |-> "freq", exc |-> NoExc]
Unbound == 0 - 1                 \* cix, pix before their first assignment

EngineIdle ==
    /\ engine = NoEngine /\ apc = "new"
    /\ child_df = << >> /\ parent_df = << >> /\ pair_df = << >> /\ skip_pair_df = << >>
    /\ matrix = NoMatrix /\ matrix_args = NoCall /\ acall = NoCall

NoStore ==
    [token_stats |-> EmptyCounter, pair_stats |-> EmptyCounter,
     skip_pair_stats |-> EmptyCounter]

AnalysisIdle == store = NoStore /\ EngineIdle

DigestIdle ==
    /\ sent = << >> /\ child_upos = "ADJ" /\ parent_upos = "NOUN"
    /\ op = "none" /\ out_ts = EmptyCounter /\ out_ps = EmptyCounter
    /\ out_edges = << >>

Init ==
    /\ files \in Corpora
    /\ stream = Flat(files)
    /\ fmt_sid \in {"int", "str"}
    /\ n_sentences \in Limits
    /\ batch_size = RefBatches[1]
    /\ run = 1 /\ ref = NoRef /\ pc = "new" /\ exc = NoExc
    /\ token_stats = EmptyCounter /\ pair_stats = EmptyCounter
    /\ lines_read = 0 /\ sentences_seen = 0 /\ lines_to_skip = 0
    /\ fi_read = 0 /\ fi_filename = None /\ peeked = FALSE
    /\ this_sentence = << >> /\ sentence_batch = << >>
    /\ parse_sid = None /\ next_sid = None /\ cur_line = 0
    /\ stats = << >> /\ cache = EmptyCache /\ pending = EmptyCache
    /\ assembled = << >>
    /\ store_before = [token_stats |-> EmptyCounter, pair_stats |-> EmptyCounter]
    /\ crashed = FALSE
    /\ DigestIdle
    /\ AnalysisIdle
    /\ OpenIdle

Next ==
    \/ Construct
    \/ ReadStart
    \/ SkipLine
    \/ ProcessLine
    \/ LoopEnd
    \/ \E i \in 1..MaxLines : DigestOne(i)
    \/ MergeStats
    \/ Advance
    \/ ToCache
    \/ Commit
    \/ AfterBatch
    \/ CloseCache
    \/ NextRun
    \/ Crash

Spec == Init /\ [][Next]_vars

----------------------------------------------------------------------------
(* SpecDigest: the per-sentence helpers on every sentence of up to MaxSentLen *)
(* words, each head an index of the sentence or 0                          *)

Sentences ==
    UNION {[1..n -> [text : Texts, upos : Uposes, head : 0..n]] : n \in 1..MaxSentLen}

ReaderIdle ==
    /\ files = << >> /\ stream = << >> /\ fmt_sid = "int" /\ n_sentences = NoLimit
    /\ batch_size = RefBatches[1] /\ run = 1 /\ ref = NoRef /\ pc = "new" /\ exc = NoExc
    /\ token_stats = EmptyCounter /\ pair_stats = EmptyCounter
    /\ lines_read = 0 /\ sentences_seen = 0 /\ lines_to_skip = 0
    /\ fi_read = 0 /\ fi_filename = None /\ peeked = FALSE
    /\ this_sentence = << >> /\ sentence_batch = << >>
    /\ parse_sid = None /\ next_sid = None /\ cur_line = 0
    /\ stats = << >> /\ cache = EmptyCache /\ pending = EmptyCache
    /\ assembled = << >>
    /\ store_before = [token_stats |-> EmptyCounter, pair_stats |-> EmptyCounter]
    /\ crashed = FALSE
    /\ OpenIdle

InitDigest ==
    /\ sent \in Sentences
    /\ child_upos = "ADJ" /\ parent_upos = "NOUN"
    /\ op = "none" /\ out_ts = EmptyCounter /\ out_ps = EmptyCounter
    /\ out_edges = << >>
    /\ ReaderIdle
    /\ AnalysisIdle

\* ts, ps = Corpus._digest_sentence(sent)
RunDigestSentence ==
    /\ op = "none"
    /\ out_ts' = DigestSentence(sent).ts
    /\ out_ps' = DigestSentence(sent).ps
    /\ op' = "_digest_sentence"
    /\ UNCHANGED <<configVars, openVars, readerVars, analysisVars, sent, child_upos, parent_upos, out_edges>>

\* Corpus._extract_edges_from_sentence(sent)
RunExtractEdgesFromSentence ==
    /\ op = "none"
    /\ out_edges' = EdgesUpTo(sent, Len(sent))
    /\ op' = "_extract_edges_from_sentence"
    /\ UNCHANGED <<configVars, openVars, readerVars, analysisVars, sent, child_upos, parent_upos, out_ts, out_ps>>

\* list(Corpus._extract_edges(sent))
RunExtractEdges ==
    /\ op = "none"
    /\ out_edges' = ExtractEdges(sent, Len(sent))
    /\ op' = "_extract_edges"
    /\ UNCHANGED <<configVars, openVars, readerVars, analysisVars, sent, child_upos, parent_upos, out_ts, out_ps>>

\* list(Corpus._extract_upos_pairs(sent, c, p))
RunExtractUposPairs(c, p) ==
    /\ op = "none"
    /\ child_upos' = c /\ parent_upos' = p
    /\ out_edges' = ExtractUposPairs(sent, c, p, Len(sent))
    /\ op' = "_extract_upos_pairs"
    /\ UNCHANGED <<configVars, openVars, readerVars, analysisVars, sent, out_ts, out_ps>>

NextDigest ==
    \/ RunDigestSentence
    \/ RunExtractEdgesFromSentence
    \/ RunExtractEdges
    \/ \E c \in Uposes, p \in Uposes : RunExtractUposPairs(c, p)

SpecDigest == InitDigest /\ [][NextDigest]_vars

----------------------------------------------------------------------------
(* SpecMalformed: the same readers on inputs with blank, short and uncastable *)
(* lines, with schemas that may lack the sentence_id column, the first reader *)
(* finding a checkpoint that may hold only some of the items                  *)

\* the lines of these inputs: token lines of one word, and the malformed lines
InputLines ==
    {l \in Lines : l.text = "b" /\ l.upos = "NOUN"}
        \cup {BlankLine, ShortLine, NoCastLine}

\* one file of up to MaxLines such lines
MalformedCorpora ==
    {<<[name |-> FileNames[1], lines |-> ls]>> :
        ls \in UNION {[1..n -> InputLines] : n \in 1..MaxLines}}

\* a checkpoint that lacks some of the items to_cache stores, or all of them
PartialCaches ==
    {EmptyCache,
     [lines_read |-> 1],
     [sentences_seen |-> 1, lines_read |-> 1],
     [token_stats |-> [k \in {<<"b", "NOUN">>} |-> 1], pair_stats |-> EmptyCounter]}

InitMalformed ==
    /\ files \in MalformedCorpora
    /\ stream = Flat(files)
    /\ fmt_sid \in {"int", "str", "absent"}
    /\ n_sentences \in Limits
    /\ batch_size = RefBatches[1]
    /\ run = 1 /\ ref = NoRef /\ pc = "new" /\ exc = NoExc
    /\ token_stats = EmptyCounter /\ pair_stats = EmptyCounter
    /\ lines_read = 0 /\ sentences_seen = 0 /\ lines_to_skip = 0
    /\ fi_read = 0 /\ fi_filename = None /\ peeked = FALSE
    /\ this_sentence = << >> /\ sentence_batch = << >>
    /\ parse_sid = None /\ next_sid = None /\ cur_line = 0
    /\ stats = << >> /\ cache \in PartialCaches /\ pending = EmptyCache
    /\ assembled = << >>
    /\ store_before = [token_stats |-> EmptyCounter, pair_stats |-> EmptyCounter]
    /\ crashed = FALSE
    /\ DigestIdle
    /\ AnalysisIdle
    /\ OpenIdle

SpecMalformed == InitMalformed /\ [][Next]_vars

----------------------------------------------------------------------------
(* SpecAnalysis: a CompositionAnalysis engine (src/composlang/composition.py) *)
(* constructed from a finished store, its operations called in any order      *)

ChildUpos == "ADJ"     \* child_upos of __init__
ParentUpos == "NOUN"   \* parent_upos of __init__
OtherWord == <<"c", "VERB">>   \* a word of neither category

MatrixStats == {"freq", "pmi"}   \* the stat arguments of generate_adjacency_matrix

PairKeys == Texts \X Texts

RECURSIVE SumOver(_, _)
SumOver(f, S) ==
    IF S = {} THEN 0
    ELSE LET x == CHOOSE y \in S : TRUE IN f[x] + SumOver(f, S \ {x})

\* function f without the arguments it maps to 0: a Counter of positive counts
Positive(f) == [x \in {y \in DOMAIN f : f[y] > 0} |-> f[x]]

Max(m, n) == IF m >= n THEN m ELSE n

\* a store that a corpus leaves: d and s count the direct and the skip pairs
\* (child text, parent text) of the two categories, a word occurs as often as
\* its pairs of either kind need, the other word occurs once
StoreOf(d, s) ==
    LET cf(t) == Max(SumOver(d, {t} \X Texts), SumOver(s, {t} \X Texts))
        pf(t) == Max(SumOver(d, Texts \X {t}), SumOver(s, Texts \X {t}))
        tok == [w \in (Texts \X {ChildUpos, ParentUpos}) \cup {OtherWord} |->
                  IF w = OtherWord THEN 1
                  ELSE IF w[2] = ChildUpos THEN cf(w[1]) ELSE pf(w[1])]
        qual(f) == [e \in {<<<<k[1], ChildUpos>>, <<k[2], ParentUpos>>>> : k \in DOMAIN f}
                      |-> f[<<e[1][1], e[2][1]>>]]
    IN [token_stats |-> Positive(tok),
        pair_stats |-> qual(Positive(d)),
        skip_pair_stats |-> qual(Positive(s))]

Stores ==
    {StoreOf(d, s) :
        d \in {f \in [PairKeys -> 0..MaxPairs] : SumOver(f, PairKeys) <= MaxPairs},
        s \in {f \in [PairKeys -> 0..1] : SumOver(f, PairKeys) <= MaxSkipPairs}}

\* the permutations of the rows S in which freq never rises
Ranked(S) ==
    {r \in [1..Cardinality(S) -> S] :
        /\ \A i, j \in DOMAIN r : i # j => r[i] # r[j]
        /\ \A i, j \in DOMAIN r : i < j => r[i].freq >= r[j].freq}

\* `key in df`: the frame has the column
HasColumn(df, key) == Len(df) > 0 /\ key \in DOMAIN df[1]

\* df[key] = vals
SetColumn(df, key, vals) ==
    [i \in 1..Len(df) |->
        [c \in DOMAIN df[i] \cup {key} |-> IF c = key THEN vals[i] ELSE df[i][c]]]

\* rows of a token table: the words of category upos
TokenRows(ts, upos) ==
    {[token |-> w[1], upos |-> w[2], freq |-> ts[w]] : w \in {v \in DOMAIN ts : v[2] = upos}}

\* Counter({(c,p): ct ...}) of the pairs of the two categories, keyed by text
FilterPairs(ps) ==
    LET keep == {e \in DOMAIN ps : e[1][2] = ChildUpos /\ e[2][2] = ParentUpos}
    IN [k \in {<<e[1][1], e[2][1]>> : e \in keep} |->
          ps[<<<<k[1], ChildUpos>>, <<k[2], ParentUpos>>>>]]

PairRows(ps) ==
    {[child |-> k[1], parent |-> k[2], pair |-> k, freq |-> ps[k]] : k \in DOMAIN ps}

\* {k: v for (k, kupos), v in items if kupos in (child_upos, parent_upos)}: a
\* text of both categories keeps the count of the category last[text], the one
\* the store's table holds later
TextKeyed(ts, last) ==
    LET has(t, u) == <<t, u>> \in DOMAIN ts
        cat(t) == IF has(t, last[t]) THEN last[t]
                  ELSE IF last[t] = ChildUpos THEN ParentUpos ELSE ChildUpos
    IN [t \in {w[1] : w \in {v \in DOMAIN ts : v[2] \in {ChildUpos, ParentUpos}}} |->
          ts[<<t, cat(t)>>]]

\* the engine's attributes and the corpus it was given as one value, the
\* argument and result of its methods
Self ==
    [corpus |-> store,
     engine |-> engine, child_df |-> child_df, parent_df |-> parent_df,
     pair_df |-> pair_df, skip_pair_df |-> skip_pair_df,
     matrix |-> matrix, matrix_args |-> matrix_args, exc |-> NoExc]

TokenToIxReversed(df) ==
    [t \in {df[i].token : i \in 1..Len(df)} |->
        Len(df) - (CHOOSE i \in 1..Len(df) : df[i].token = t)]

\* {token: ix for ix, token in enumerate(df['token'])}
TokenToIx(df) ==
    [t \in {df[i].token : i \in 1..Len(df)} |->
        (CHOOSE i \in 1..Len(df) :
            df[i].token = t /\ \A j \in (i + 1)..Len(df) : df[j].token # t) - 1]

\* the loop of generate_adjacency_matrix over the first k rows: the cells
\* written, the last indices found, and the exception that ended it
RECURSIVE FillMatrix(_, _, _, _)
FillMatrix(e, rows, k, stat) ==
    IF k = 0
    THEN [cells |-> [x \in {} |-> 0], cix |-> Unbound, pix |-> Unbound, exc |-> NoExc]
    ELSE LET prev == FillMatrix(e, rows, k - 1, stat)
             row == rows[k]
             cti == TokenToIx(e.child_df)
             pti == TokenToIx(e.parent_df)
             cix == IF row.child \in DOMAIN cti THEN cti[row.child] ELSE prev.cix
             pix == IF row.child \in DOMAIN cti /\ row.parent \in DOMAIN pti
                    THEN pti[row.parent] ELSE prev.pix
         IN IF prev.exc # NoExc THEN prev
            ELSE IF stat \notin DOMAIN row THEN [prev EXCEPT !.exc = "KeyError"]
            ELSE IF cix = Unbound \/ pix = Unbound
                 THEN [prev EXCEPT !.exc = "UnboundLocalError"]
            ELSE [cells |-> [x \in DOMAIN prev.cells \cup {<<cix, pix>>} |->
                                IF x = <<cix, pix>> THEN row[stat] ELSE prev.cells[x]],
                  cix |-> cix, pix |-> pix, exc |-> NoExc]

\* self.matrix = matrix after the loop ended as fill says
FilledMatrix(e, fill, skip, stat) ==
    IF fill.exc # NoExc THEN [e EXCEPT !.exc = fill.exc]
    ELSE [e EXCEPT
            !.matrix = [built |-> TRUE,
                        shape |-> <<Len(e.child_df), Len(e.parent_df)>>,
                        cells |-> fill.cells],
            !.matrix_args = [op |-> "generate_adjacency_matrix", skip |-> skip,
                             stat |-> stat, exc |-> NoExc]]

\* self.generate_adjacency_matrix(skip, stat)
GenerateAdjacencyMatrix(e, skip, stat) ==
    IF e.matrix.built THEN e
    ELSE IF skip
         THEN FilledMatrix(e, FillMatrix(e, e.skip_pair_df, Len(e.skip_pair_df), stat),
                           skip, stat)
         ELSE FilledMatrix(e, FillMatrix(e, e.pair_df, Len(e.pair_df), stat), skip, stat)

\* row i and column j of the matrix (0-based): the cells that were written
MatrixRow(m, i) ==
    [j \in {x[2] : x \in {y \in DOMAIN m.cells : y[1] = i}} |-> m.cells[<<i, j>>]]
MatrixCol(m, j) ==
    [i \in {x[1] : x \in {y \in DOMAIN m.cells : y[2] = j}} |-> m.cells[<<i, j>>]]

\* child_to_parent[t] (side 1), parent_to_child[t] (side 2)
PartnerSum(stat_dict, side, t) ==
    SumOver(stat_dict, {k \in DOMAIN stat_dict : k[side] = t})

PartnerCountAsSum(stat_dict, side, t) == PartnerSum(stat_dict, side, t)

\* collapsed_child_to_parent[t] (side 1), collapsed_parent_to_child[t] (side 2)
PartnerCount(stat_dict, side, t) ==
    Cardinality({k \in DOMAIN stat_dict : k[side] = t})

\* one iteration of the loop of compute_combinations
CombinationsStep(e, key, stat_dict) ==
    IF HasColumn(e.child_df, key) /\ HasColumn(e.parent_df, key) THEN e
    ELSE LET c1 == SetColumn(e.child_df, key,
                     [i \in 1..Len(e.child_df) |->
                        PartnerSum(stat_dict, 1, e.child_df[i].token)])
             p1 == SetColumn(e.parent_df, key,
                     [i \in 1..Len(e.parent_df) |->
                        PartnerSum(stat_dict, 2, e.parent_df[i].token)])
             c2 == SetColumn(c1, key \o "_collapsed",
                     [i \in 1..Len(c1) |-> PartnerCount(stat_dict, 1, c1[i].token)])
             p2 == SetColumn(p1, key \o "_collapsed",
                     [i \in 1..Len(p1) |-> PartnerCount(stat_dict, 2, p1[i].token)])
         IN [e EXCEPT !.child_df = c2, !.parent_df = p2]

\* self.compute_combinations()
ComputeCombinations(e) ==
    CombinationsStep(CombinationsStep(e, "combinations", e.engine.pair_stats),
                     "skip_combinations", e.engine.skip_pair_stats)

\* scipy.stats.entropy of a row or column with its default base, NaN (a row
\* or column of zeros) replaced by 0
Entropy(cells) ==
    [kind |-> IF DOMAIN cells = {} THEN "nan filled with 0" ELSE "entropy",
     base |-> "e", of |-> cells]

\* value / np.log2(denom)
Ceilinged(value, denom) == [value |-> value, log2_of |-> denom]

NormDenomLength(freq, length) == length

\* (mask * freq) + (~mask * length), mask = freq < length
NormDenom(freq, length) == IF freq < length THEN freq ELSE length

\* the columns one iteration of compute_entropy writes, g the engine after its
\* call of generate_adjacency_matrix
EntropyColumns(g, column_name) ==
    LET m == g.matrix
        child_ent == [i \in 1..Len(g.child_df) |-> Entropy(MatrixRow(m, i - 1))]
        parent_ent == [j \in 1..Len(g.parent_df) |-> Entropy(MatrixCol(m, j - 1))]
        c1 == SetColumn(g.child_df, column_name, child_ent)
        p1 == SetColumn(g.parent_df, column_name, parent_ent)
        p2 == SetColumn(p1, column_name \o "_ceilinged",
                [j \in 1..Len(p1) |->
                    Ceilinged(parent_ent[j], NormDenom(p1[j].freq, m.shape[1]))])
        c2 == SetColumn(c1, column_name \o "_ceilinged",
                [i \in 1..Len(c1) |->
                    Ceilinged(child_ent[i], NormDenom(c1[i].freq, m.shape[2]))])
    IN IF g.exc # NoExc THEN g
       ELSE [g EXCEPT !.child_df = c2, !.parent_df = p2]

\* one iteration of the loop of compute_entropy, past its test
EntropyStep(e, column_name, skip) ==
    EntropyColumns(GenerateAdjacencyMatrix(e, skip, "freq"), column_name)

EntropyPresent(e, column_name) ==
    HasColumn(e.child_df, column_name) /\ HasColumn(e.parent_df, column_name)

\* the second iteration of the loop of compute_entropy, reached when the
\* first raised nothing
EntropySkipStep(e) ==
    IF e.exc # NoExc \/ EntropyPresent(e, "entropy_skip") THEN e
    ELSE EntropyStep(e, "entropy_skip", TRUE)

\* self.compute_entropy(): the loop returns at the first column it finds
ComputeEntropy(e) ==
    IF EntropyPresent(e, "entropy") THEN e
    ELSE EntropySkipStep(EntropyStep(e, "entropy", FALSE))

\* (log2(ct) - log2(w_ct)) - (log2(p_ct) - log2(n_tokens))
Pmi(ct, w_ct, p_ct, n) == [ct |-> ct, w_ct |-> w_ct, p_ct |-> p_ct, n_tokens |-> n]

PairColumns == {"child", "parent", "pair", "freq"}

\* one iteration of the loop of compute_pmi on the table stat_df
PmiStep(e, key, skip) ==
    LET stat_df == IF skip THEN e.skip_pair_df ELSE e.pair_df
        ts == e.engine.token_stats
        known == \A i \in 1..Len(stat_df) :
                    stat_df[i].child \in DOMAIN ts /\ stat_df[i].parent \in DOMAIN ts
        pmi == [i \in 1..Len(stat_df) |->
                  Pmi(stat_df[i].freq, ts[stat_df[i].child], ts[stat_df[i].parent],
                      e.engine.n_tokens)]
        df == SetColumn(stat_df, key, pmi)
    IN IF HasColumn(e.child_df, key) /\ HasColumn(e.parent_df, key) THEN e
       ELSE IF Len(stat_df) > 0 /\ DOMAIN stat_df[1] # PairColumns
            THEN [e EXCEPT !.exc = "ValueError"]
       ELSE IF Len(stat_df) > 0 /\ Len(stat_df[1].pair) # 2
            THEN [e EXCEPT !.exc = "ValueError"]
       ELSE IF ~known THEN [e EXCEPT !.exc = "KeyError"]
       ELSE IF skip THEN [e EXCEPT !.skip_pair_df = df]
       ELSE [e EXCEPT !.pair_df = df]

\* the second iteration of the loop of compute_pmi, reached when the first
\* raised nothing
PmiSkipStep(e) == IF e.exc # NoExc THEN e ELSE PmiStep(e, "skip_pmi", TRUE)

\* self.compute_pmi()
ComputePmi(e) == PmiSkipStep(PmiStep(e, "pmi", FALSE))

\* the second and the third statement of run_analyses, reached when the ones
\* before raised nothing
ThenEntropy(e) == IF e.exc # NoExc THEN e ELSE ComputeEntropy(e)
ThenPmi(e) == IF e.exc # NoExc THEN e ELSE ComputePmi(e)

\* self.run_analyses()
RunAnalyses(e) == ThenPmi(ThenEntropy(ComputeCombinations(e)))

\* the attributes and the corpus become those of e
Becomes(e) ==
    /\ store' = e.corpus
    /\ engine' = e.engine
    /\ child_df' = e.child_df /\ parent_df' = e.parent_df
    /\ pair_df' = e.pair_df /\ skip_pair_df' = e.skip_pair_df
    /\ matrix' = e.matrix /\ matrix_args' = e.matrix_args

AfterItemsPopped(table) == EmptyCounter

\* a table of the corpus after .items() or .values() was iterated
AfterItems(table) == table

\* the attributes _crunch_corpus_stats sets, the frames ranked as given
Crunched(cdf, pdf, prd, sprd, last) ==
    [corpus |-> [token_stats |-> AfterItems(store.token_stats),
                 pair_stats |-> AfterItems(store.pair_stats),
                 skip_pair_stats |-> AfterItems(store.skip_pair_stats)],
     engine |-> [built |-> TRUE,
                 n_tokens |-> SumOver(store.token_stats, DOMAIN store.token_stats),
                 token_stats |-> TextKeyed(store.token_stats, last),
                 pair_stats |-> FilterPairs(store.pair_stats),
                 skip_pair_stats |-> FilterPairs(store.skip_pair_stats)],
     child_df |-> cdf, parent_df |-> pdf, pair_df |-> prd, skip_pair_df |-> sprd,
     matrix |-> NoMatrix, matrix_args |-> NoCall, exc |-> NoExc]

\* __init__ ends: with the exception of e, or with the engine e
Constructed(e) ==
    IF e.exc # NoExc
    THEN /\ apc' = "failed"
         /\ acall' = [NoCall EXCEPT !.op = "__init__", !.exc = e.exc]
         /\ store' = e.corpus
         /\ UNCHANGED <<engine, child_df, parent_df, pair_df, skip_pair_df,
                        matrix, matrix_args>>
    ELSE /\ apc' = "ready"
         /\ acall' = [NoCall EXCEPT !.op = "__init__"]
         /\ Becomes(e)

\* CompositionAnalysis(corpus, run_analyses=ra): _crunch_corpus_stats, then
\* run_analyses if asked; pd.DataFrame([]).sort_values('freq') raises KeyError
ConstructAnalysis(ra) ==
    /\ apc = "new"
    /\ LET children == TokenRows(store.token_stats, ChildUpos)
           parents == TokenRows(store.token_stats, ParentUpos)
           prs == PairRows(FilterPairs(store.pair_stats))
           sprs == PairRows(FilterPairs(store.skip_pair_stats))
       IN IF children = {} \/ parents = {} \/ prs = {} \/ sprs = {}
          THEN Constructed([Self EXCEPT !.exc = "KeyError"])
          ELSE \E cdf \in Ranked(children), pdf \in Ranked(parents),
                  prd \in Ranked(prs), sprd \in Ranked(sprs),
                  last \in [Texts -> {ChildUpos, ParentUpos}] :
                 IF ra THEN Constructed(RunAnalyses(Crunched(cdf, pdf, prd, sprd, last)))
                 ELSE Constructed(Crunched(cdf, pdf, prd, sprd, last))
    /\ UNCHANGED <<configVars, openVars, readerVars, digestVars>>

\* a method of the engine returns: what it leaves, what it raised
MethodReturns(name, skip, stat, e) ==
    /\ Becomes(e)
    /\ acall' = [op |-> name, skip |-> skip, stat |-> stat, exc |-> e.exc]
    /\ UNCHANGED <<configVars, openVars, readerVars, digestVars, apc>>

CallGenerateAdjacencyMatrix(skip, stat) ==
    /\ apc = "ready"
    /\ MethodReturns("generate_adjacency_matrix", skip, stat,
                     GenerateAdjacencyMatrix(Self, skip, stat))

CallComputeCombinations ==
    /\ apc = "ready"
    /\ MethodReturns("compute_combinations", FALSE, "freq", ComputeCombinations(Self))

CallComputeEntropy ==
    /\ apc = "ready"
    /\ MethodReturns("compute_entropy", FALSE, "freq", ComputeEntropy(Self))

CallComputePmi ==
    /\ apc = "ready"
    /\ MethodReturns("compute_pmi", FALSE, "freq", ComputePmi(Self))

InitAnalysis ==
    /\ store \in Stores
    /\ EngineIdle
    /\ ReaderIdle
    /\ DigestIdle

NextAnalysis ==
    \/ \E ra \in BOOLEAN : ConstructAnalysis(ra)
    \/ \E skip \in BOOLEAN, stat \in MatrixStats : CallGenerateAdjacencyMatrix(skip, stat)
    \/ CallComputeCombinations
    \/ CallComputeEntropy
    \/ CallComputePmi

SpecAnalysis == InitAnalysis /\ [][NextAnalysis]_vars

-----------------------------------------------------------------------------
(* CompositionAnalysis.to_csv and read_csv: the frames through files *)

\* str((c, p)), the text to_csv writes for a cell of the pair column and
\* read_csv returns as it is: a string, character by character
PairText(k) == <<"(", "'", k[1], "'", ",", " ", "'", k[2], "'", ")">>

\* the columns of floats
FloatColumns ==
    {"entropy", "entropy_skip", "entropy_ceilinged", "entropy_skip_ceilinged",
     "pmi", "skip_pmi"}

\* the float read_csv parses from the text of the float v: near v, not
\* always v
Parsed(v) == IF "parsed" \in DOMAIN v THEN v ELSE [parsed |-> v]

\* pd.read_csv(file, index_col=0, converters={'token': str}) of the file
\* to_csv wrote from df: tokens, categories and counts come back as written,
\* tuples as their text, floats as parsed
ReadFrame(df) ==
    [i \in 1..Len(df) |->
        [c \in DOMAIN df[i] |->
            IF c = "pair"
            THEN IF Len(df[i][c]) = 2 THEN PairText(df[i][c]) ELSE df[i][c]
            ELSE IF c \in FloatColumns THEN Parsed(df[i][c])
            ELSE df[i][c]]]

\* the files to_csv(directory) writes
ToCsv(e) ==
    [exists |-> TRUE, child_df |-> e.child_df, parent_df |-> e.parent_df,
     pair_df |-> e.pair_df, skip_pair_df |-> e.skip_pair_df]

\* a directory without the files
NoFiles == [exists |-> FALSE]

WithoutRow(df, i) == SubSeq(df, 1, i - 1) \o SubSeq(df, i + 1, Len(df))

WithoutColumns(df, cols) ==
    [i \in 1..Len(df) |-> [c \in DOMAIN df[i] \ cols |-> df[i][c]]]

SkipEntropyColumns == {"entropy_skip", "entropy_skip_ceilinged"}

\* the directories read_csv is given
DirectoryKinds ==
    {"no files", "written", "fewer children", "fewer parents", "no skip entropy"}

\* the files of a directory of that kind: none, the ones to_csv of this
\* engine wrote, or ones in which the files of the token tables are those of
\* another engine: of a corpus without the last word of a table that holds
\* two, or of an analysis without the entropy of the skip pairs
Directory(e, kind) ==
    LET d == ToCsv(e)
    IN CASE kind = "no files" -> NoFiles
         [] kind = "written" -> d
         [] kind = "fewer children" ->
              IF Len(d.child_df) < 2 THEN d
              ELSE [d EXCEPT !.child_df = WithoutRow(d.child_df, Len(d.child_df))]
         [] kind = "fewer parents" ->
              IF Len(d.parent_df) < 2 THEN d
              ELSE [d EXCEPT !.parent_df = WithoutRow(d.parent_df, Len(d.parent_df))]
         [] kind = "no skip entropy" ->
              [d EXCEPT !.child_df = WithoutColumns(d.child_df, SkipEntropyColumns),
                        !.parent_df = WithoutColumns(d.parent_df, SkipEntropyColumns)]

\* what read_csv leaves of the engine e given the files dir
FramesRead(e, dir) ==
    IF dir.exists
    THEN [e EXCEPT !.child_df = ReadFrame(dir.child_df),
                   !.parent_df = ReadFrame(dir.parent_df),
                   !.pair_df = ReadFrame(dir.pair_df),
                   !.skip_pair_df = ReadFrame(dir.skip_pair_df)]
    ELSE [e EXCEPT !.exc = "FileNotFoundError"]

\* self.read_csv(directory): the four frames become those of the files
ReadCsv(kind) ==
    /\ apc = "ready"
    /\ MethodReturns("read_csv", FALSE, "freq", FramesRead(Self, Directory(Self, kind)))

\* the stores of the engines that read files: every pair counted once, no
\* word in two pairs, the skip pairs the direct pairs
CsvStores ==
    {StoreOf(d, d) :
        d \in {f \in [PairKeys -> 0..1] :
                  \A k, l \in PairKeys :
                     (f[k] = 1 /\ f[l] = 1 /\ k # l) => (k[1] # l[1] /\ k[2] # l[2])}}

InitCsv ==
    /\ store \in CsvStores
    /\ EngineIdle
    /\ ReaderIdle
    /\ DigestIdle

NextCsv ==
    \/ \E ra \in BOOLEAN : ConstructAnalysis(ra)
    \/ \E kind \in DirectoryKinds : ReadCsv(kind)
    \/ \E skip \in BOOLEAN, stat \in MatrixStats : CallGenerateAdjacencyMatrix(skip, stat)
    \/ CallComputeCombinations
    \/ CallComputeEntropy
    \/ CallComputePmi

SpecCsv == InitCsv /\ [][NextCsv]_vars

-----------------------------------------------------------------------------
(* SpecOpen: Corpus objects opened on files and checkpoint tags *)

\* the items to_cache stores, the list of files among them
SnapshotWithFiles ==
    [sentences_seen |-> sentences_seen, lines_read |-> lines_read,
     pair_stats |-> pair_stats, token_stats |-> token_stats, files |-> files]

\* load_cache(): the item attr of the checkpoint c, or what __init__ had set
LoadedFrom(c, attr, default) == IF attr \in DOMAIN c THEN c[attr] ELSE default

\* _files after load_cache(): the stored list replaces the sorted one
LoadedFiles(c, sorted) == LoadedFrom(c, "files", sorted)

\* Corpus(arg, cache_tag=tag): _files sorted, the tag given or derived from
\* them, the SqliteDict of the tag opened and its items loaded
OpenCorpus(arg, tag) ==
    /\ pc \in {"new", "ready"}
    /\ LET sorted == Sorted(arg)
           t == IF tag = NoTag THEN DerivedTag(sorted) ELSE tag
           c == checkpoints[t]
       IN /\ argument' = arg
          /\ cache_tag' = t
          /\ cache' = c
          /\ files' = LoadedFiles(c, sorted)
          /\ stream' = Flat(LoadedFiles(c, sorted))
          /\ token_stats' = LoadedFrom(c, "token_stats", EmptyCounter)
          /\ pair_stats' = LoadedFrom(c, "pair_stats", EmptyCounter)
          /\ lines_read' = LoadedFrom(c, "lines_read", 0)
          /\ sentences_seen' = LoadedFrom(c, "sentences_seen", 0)
    /\ pc' = "ready"
    /\ UNCHANGED <<fmt_sid, n_sentences, digestVars, analysisVars, checkpoints,
                   batch_size, run, ref, exc, lines_to_skip,
                   fi_read, fi_filename, peeked, this_sentence, sentence_batch,
                   parse_sid, next_sid, cur_line, stats, pending, assembled,
                   store_before, crashed>>

\* to_cache(): every item stored and committed under the tag of the object
CallToCache ==
    /\ pc = "ready"
    /\ cache' = Committed(cache, SnapshotWithFiles)
    /\ checkpoints' = [checkpoints EXCEPT ![cache_tag] = Committed(cache, SnapshotWithFiles)]
    /\ UNCHANGED <<configVars, digestVars, analysisVars, argument, cache_tag,
                   batch_size, run, ref, pc, exc, token_stats,
                   pair_stats, lines_read, sentences_seen, lines_to_skip, fi_read,
                   fi_filename, peeked, this_sentence, sentence_batch, parse_sid,
                   next_sid, cur_line, stats, pending, assembled, store_before,
                   crashed>>

InitOpen ==
    /\ ReaderIdle
    /\ DigestIdle
    /\ AnalysisIdle

NextOpen ==
    \/ \E arg \in Arguments, tag \in {NoTag} \cup {ExplicitTag(n) : n \in TagNames} :
          OpenCorpus(arg, tag)
    \/ CallToCache

SpecOpen == InitOpen /\ [][NextOpen]_vars

----------------------------------------------------------------------------
(* Notions the properties are stated with *)

\* lines j and k carry the same composite sentence id (source file, raw id)
SameSentenceId(j, k) == FileOf(j) = FileOf(k) /\ LineAt(j).sid = LineAt(k).sid

WordOfLine(k) == [text |-> LineAt(k).text, upos |-> LineAt(k).upos, head |-> LineAt(k).head]

\* the maximal runs of consecutive lines with equal composite sentence id,
\* from line k on, buf being the run in progress
RECURSIVE Runs(_, _)
Runs(k, buf) ==
    IF k > Total THEN << >>
    ELSE LET b == Append(buf, WordOfLine(k))
         IN IF k = Total \/ ~SameSentenceId(k, k + 1)
            THEN <<b>> \o Runs(k + 1, << >>)
            ELSE Runs(k + 1, b)

AllSentences == Runs(1, << >>)

RECURSIVE LinesOf(_)
LinesOf(ss) == IF ss = << >> THEN 0 ELSE Len(ss[1]) + LinesOf(Tail(ss))

\* the positions <<sentence, word>> of the sentences ss
Positions(ss) == UNION {{<<i, j>> : j \in 1..Len(ss[i])} : i \in 1..Len(ss)}

\* number of words of the sentences ss that are the word w
TokenOcc(ss, w) ==
    Cardinality({x \in Positions(ss) : Word(ss[x[1]][x[2]]) = w})

\* number of words of the sentences ss that have a parent and form the edge e with it
EdgeOcc(ss, e) ==
    Cardinality({x \in Positions(ss) :
                    /\ ss[x[1]][x[2]].head # 0
                    /\ <<Word(ss[x[1]][x[2]]), Word(ss[x[1]][ss[x[1]][x[2]].head])>> = e})

AllWords == Texts \X Uposes
AllEdges == AllWords \X AllWords

\* the counter c holds exactly the non-zero counts given by occ
IsCounterOf(c, keys, occ(_)) ==
    /\ DOMAIN c = {k \in keys : occ(k) > 0}
    /\ \A k \in DOMAIN c : c[k] = occ(k)

\* tables t1 are tables t0 plus the words and edges of the sentences ss
IsSumOver(t1, t0, ss) ==
    /\ \A w \in AllWords :
         Count(t1.token_stats, w) = Count(t0.token_stats, w) + TokenOcc(ss, w)
    /\ \A e \in AllEdges :
         Count(t1.pair_stats, e) = Count(t0.pair_stats, e) + EdgeOcc(ss, e)
    /\ DOMAIN t1.token_stats \subseteq AllWords
    /\ DOMAIN t1.pair_stats \subseteq AllEdges

NoTables == [token_stats |-> EmptyCounter, pair_stats |-> EmptyCounter]

\* the summed digests of the sentences ss
RECURSIVE SummedDigests(_)
SummedDigests(ss) ==
    IF ss = << >> THEN NoTables
    ELSE LET r == SummedDigests(Tail(ss))
             d == DigestSentence(ss[1])
         IN [token_stats |-> CounterUpdate(r.token_stats, d.ts),
             pair_stats |-> CounterUpdate(r.pair_stats, d.ps)]
Tables == [token_stats |-> token_stats, pair_stats |-> pair_stats]

\* read() has returned without an exception and the cache is closed
Returned == pc = "closed" /\ exc = NoExc

----------------------------------------------------------------------------
(* Properties *)

\* the reference read with batch size b returned without an exception
RefReturned(b) == ref[b].returned /\ ref[b].exc = NoExc

\* C1: resume equivalence.  Whenever the last reader, crashed at any point and
\* resumed from its checkpoint any number of times, returns from read(), its
\* tables are those of the uninterrupted reference read with the same batch
\* size and sentence limit.
C1_ResumeEquivalence ==
    (run = LastRun /\ Returned /\ RefReturned(batch_size))
        => /\ token_stats = ref[batch_size].token_stats
           /\ pair_stats = ref[batch_size].pair_stats

\* C2: batch-size independence.  Two complete reads from a fresh state, with
\* any two batch sizes, end with the same tables.
C2_BatchSizeIndependence ==
    \A b1, b2 \in BatchSizes :
        (RefReturned(b1) /\ RefReturned(b2))
            => /\ ref[b1].token_stats = ref[b2].token_stats
               /\ ref[b1].pair_stats = ref[b2].pair_stats

\* C3: sentence segmentation.  When a read of the whole input from a fresh
\* state, without sentence limit, has ended, the sentences it assembled are the
\* maximal runs of lines with equal composite sentence id, in input order.
C3_Segmentation ==
    (run < LastRun /\ pc = "closed" /\ n_sentences = NoLimit) => assembled = AllSentences

\* C4: end of input.  When the line just processed is the last line of the
\* input, the lookahead was the sentinel, the segmenter accepted it, its
\* composite id differs from the line's, and read() did not raise.
C4_SentinelAccepted ==
    (cur_line > 0 /\ cur_line = Total)
        => (exc = NoExc /\ next_sid # None /\ next_sid # parse_sid)

\* C5: composite sentence id.  The id compared for the current line is made of
\* the current line's file, the id compared for the lookahead line of the
\* lookahead line's file; a boundary is seen between two lines of different
\* files, and the buffered sentence never spans two files.
C5_CompositeId ==
    (cur_line > 0 /\ SegmentOk(LineAt(cur_line))) =>
        /\ parse_sid = CompositeId(FileOf(cur_line), SegmentLine(LineAt(cur_line)))
        /\ (cur_line < Total /\ exc = NoExc) =>
             /\ next_sid = CompositeId(FileOf(cur_line + 1),
                                       SegmentLine(LineAt(cur_line + 1)))
             /\ FileOf(cur_line) # FileOf(cur_line + 1) => next_sid # parse_sid
        /\ Len(this_sentence) <= cur_line
        /\ \A i \in 1..Len(this_sentence) :
             LET j == cur_line - Len(this_sentence) + i
             IN /\ FileOf(j) = FileOf(cur_line)
                /\ this_sentence[i].sentence_id = parse_sid

\* a boundary was seen between two lines of different files with one raw id
C5_Witness ==
    /\ cur_line > 0 /\ cur_line < Total /\ exc = NoExc
    /\ FileOf(cur_line) # FileOf(cur_line + 1)
    /\ LineAt(cur_line).sid = LineAt(cur_line + 1).sid
    /\ next_sid # parse_sid
    /\ Len(assembled) > 0

\* C6: no edge or pair produced by _extract_edges_from_sentence, _extract_edges
\* or _extract_upos_pairs has as its child a word whose parent index is 0.
C6_NoRootChild ==
    \A i \in 1..Len(out_edges) : sent[out_edges[i].ix].head # 0

\* C7: _digest_sentence returns one increment per word keyed by (text,
\* category), so the counts sum to the sentence length, and one increment of
\* the edge (word, words[h-1]) per word with parent index h # 0 and nothing
\* else; the sentence and the reader's tables are left as they were.
C7_DigestOfSentence ==
    /\ [](op = "_digest_sentence" =>
            /\ CounterTotal(out_ts) = Len(sent)
            /\ IsCounterOf(out_ts, AllWords, LAMBDA w : TokenOcc(<<sent>>, w))
            /\ IsCounterOf(out_ps, AllEdges, LAMBDA e : EdgeOcc(<<sent>>, e)))
    /\ [][op' = "_digest_sentence" =>
            (sent' = sent /\ token_stats' = token_stats /\ pair_stats' = pair_stats)]_vars

\* a sentence with a root, a repeated word and a word with a parent was digested
C7_Witness ==
    /\ op = "_digest_sentence"
    /\ \E i, j \in 1..Len(sent) :
         i # j /\ Word(sent[i]) = Word(sent[j]) /\ sent[i].head = 0 /\ sent[j].head # 0
    /\ out_ps # EmptyCounter

\* C8: merge order independence.  Whatever order the workers return in, once
\* digest_sentencebatch has merged, the store is the store before the batch
\* plus the key-wise sum of the digests of the batch's sentences.
C8_MergeIsSum ==
    pc = "advance" => IsSumOver(Tables, store_before, sentence_batch)

\* a batch of two sentences with a word in common was merged
C8_Witness ==
    /\ pc = "advance" /\ Len(sentence_batch) = 2
    /\ \E w \in AllWords :
         TokenOcc(<<sentence_batch[1]>>, w) > 0 /\ TokenOcc(<<sentence_batch[2]>>, w) > 0
    /\ pair_stats # EmptyCounter

C10_PersistBeforeNextBatch ==
    pc = "digest" =>
        /\ pending = EmptyCache
        /\ Loaded("sentences_seen", 0) = sentences_seen
        /\ Loaded("lines_read", 0) = lines_read
        /\ Loaded("token_stats", EmptyCounter) = token_stats
        /\ Loaded("pair_stats", EmptyCounter) = pair_stats

\* a batch is dispatched after an earlier batch of the same read() was persisted
C10_Witness ==
    /\ pc = "digest" /\ sentences_seen > 0 /\ lines_to_skip = 0 /\ lines_read > 0
    /\ Len(assembled) > Len(sentence_batch)

\* the number of sentences of the input that lie within the sentence limit
WithinLimit ==
    IF n_sentences = NoLimit \/ n_sentences > Len(AllSentences)
    THEN Len(AllSentences) ELSE n_sentences

\* the persisted tables
PersistedTables ==
    [token_stats |-> Loaded("token_stats", EmptyCounter),
     pair_stats |-> Loaded("pair_stats", EmptyCounter)]

\* C11: exactly-once accounting.  Over reads, crashes and resumes the persisted
\* tables are the summed digests of some first sentences of the input, each
\* taken once; once read() has returned, these include every sentence within
\* the limit.
C11_ExactlyOnce ==
    \E k \in (IF Returned THEN WithinLimit ELSE 0)..Len(AllSentences) :
        PersistedTables = SummedDigests(SubSeq(AllSentences, 1, k))

\* C12: sentence limit.  With a limit n, sentences_seen never exceeds n, also
\* in a reader resumed from a checkpoint that already holds n sentences; when
\* read() has returned on an input of at least n sentences, sentences_seen is
\* n and the tables are the summed digests of the first n sentences.
C12_SentenceLimit ==
    n_sentences # NoLimit =>
        /\ sentences_seen <= n_sentences
        /\ (Returned /\ Len(AllSentences) >= n_sentences) =>
             /\ sentences_seen = n_sentences
             /\ Tables = SummedDigests(SubSeq(AllSentences, 1, n_sentences))

\* every count of table c is kept or raised in table d, and no key is removed
Grown(c, d) == \A k \in DOMAIN c : k \in DOMAIN d /\ d[k] >= c[k]

\* C13: monotonic tables.  In the life of a reader no step lowers a count of
\* the token or pair table or removes a key; across crashes and resumes of one
\* run the same holds for the persisted tables.
C13_MonotonicTables ==
    [][/\ pc' # "new" =>
            (Grown(token_stats, token_stats') /\ Grown(pair_stats, pair_stats'))
       /\ run' = run =>
            /\ Grown(PersistedTables.token_stats, PersistedTables'.token_stats)
            /\ Grown(PersistedTables.pair_stats, PersistedTables'.pair_stats)]_vars

\* a second batch has raised the tables left by the first
C13_Witness ==
    /\ pc = "advance"
    /\ store_before.token_stats # EmptyCounter
    /\ \E w \in DOMAIN store_before.token_stats :
         token_stats[w] > store_before.token_stats[w]
    /\ \E w \in DOMAIN token_stats : w \notin DOMAIN store_before.token_stats

\* C14: a schema without a sentence_id column is refused at construction.  No
\* reader with such a schema gets past its construction, and none reads a line.
C14_SchemaChecked ==
    fmt_sid = "absent" => (pc = "new" /\ fi_read = 0 /\ cur_line = 0)

\* the exceptions segment_line raises on a malformed line
ParseErrors == {"ValueError", "IndexError"}

\* the sentences of this read() that went into completed batches
Completed == SubSeq(assembled, 1, Len(assembled) - Len(sentence_batch))

\* read() has given a malformed line to segment_line, as the current line or,
\* the current line being accepted, as the lookahead
MetMalformed ==
    /\ cur_line > 0
    /\ \/ LineAt(cur_line).shape # "token"
       \/ /\ LineExc(LineAt(cur_line)) = NoExc
          /\ cur_line < Total
          /\ LineAt(cur_line + 1).shape # "token"

\* C15: parse failure.  A malformed line given to segment_line ends read()
\* with an exception.  When read() has ended with the exception of
\* segment_line, nothing is left uncommitted and the durable checkpoint holds
\* what the reader holds, before and after the store is closed; in a reader
\* that started from an empty checkpoint this is the state after the last
\* completed batch, the sentences of the batch in progress not being digested.
C15_ParseFailure ==
    /\ MetMalformed => (exc \in ParseErrors /\ pc \in {"done", "closed"})
    /\ (exc \in ParseErrors /\ pc \in {"done", "closed"}) =>
        /\ pending = EmptyCache
        /\ Loaded("sentences_seen", 0) = sentences_seen
        /\ Loaded("lines_read", 0) = lines_read
        /\ PersistedTables = Tables
        /\ (run > 1 /\ ~crashed) =>
             /\ Tables = SummedDigests(Completed)
             /\ sentences_seen = Len(Completed)
             /\ lines_read = LinesOf(Completed)

\* read() was ended by a short line after a batch was persisted, the store is closed
C15_Witness ==
    /\ exc = "IndexError" /\ pc = "closed"
    /\ run > 1 /\ ~crashed
    /\ sentences_seen > 0 /\ cache # EmptyCache
    /\ this_sentence # << >>
    /\ LineAt(cur_line + 1).shape = "short"

\* the input without its blank lines
NonBlank == SelectSeq(stream, LAMBDA x : x.line.shape # "blank")

\* the maximal runs of equal composite sentence id of the lines s, from line k
\* on, buf being the run in progress
RECURSIVE RunsIn(_, _, _)
RunsIn(s, k, buf) ==
    IF k > Len(s) THEN << >>
    ELSE LET l == s[k].line
             b == Append(buf, [text |-> l.text, upos |-> l.upos, head |-> l.head])
         IN IF k = Len(s) \/ s[k].file # s[k + 1].file \/ l.sid # s[k + 1].line.sid
            THEN <<b>> \o RunsIn(s, k + 1, << >>)
            ELSE RunsIn(s, k + 1, b)

\* every line of the input is a token line or a blank line
OnlyTokenAndBlank == \A k \in 1..Total : LineAt(k).shape \in {"token", "blank"}

\* C16: blank lines.  No blank line is the line read() hands to segment_line;
\* on an input of token lines and blank lines, read under a schema that
\* accepts every token line and the end of the input, read() raises nothing
\* and a whole read assembles the sentences of the input without its blank
\* lines.
C16_BlankLinesSkipped ==
    /\ cur_line > 0 => LineAt(cur_line).shape # "blank"
    /\ (OnlyTokenAndBlank /\ fmt_sid = "str") =>
         /\ exc = NoExc
         /\ (run > 1 /\ run < LastRun /\ pc = "closed" /\ n_sentences = NoLimit) =>
              assembled = RunsIn(NonBlank, 1, << >>)

\* the items a checkpoint needs for the reader to resume from it
RequiredItems == {"sentences_seen", "lines_read", "pair_stats", "token_stats"}

\* C17: incomplete checkpoint.  A reader constructed on a checkpoint that lacks
\* a required item starts from the empty state: no line read, no sentence
\* seen, empty tables.
C17_IncompleteCheckpoint ==
    (pc = "ready" /\ ~(RequiredItems \subseteq DOMAIN cache)) =>
        /\ lines_read = 0 /\ sentences_seen = 0
        /\ token_stats = EmptyCounter /\ pair_stats = EmptyCounter

\* the matrix is the one of the direct pairs and their raw frequencies
DirectFreqMatrix ==
    matrix.built /\ ~matrix_args.skip /\ matrix_args.stat = "freq"

CombinationsPresent ==
    HasColumn(child_df, "combinations") /\ HasColumn(parent_df, "combinations")

NonZero(cells) == Cardinality({x \in DOMAIN cells : cells[x] # 0})

\* C18: row and column sums.  Once the raw-frequency matrix of the direct
\* pairs is built and the combinations are computed, the row of every child
\* token sums to its combinations and has combinations_collapsed non-zero
\* cells, and so does the column of every parent token.
C18_RowSums ==
    (apc = "ready" /\ DirectFreqMatrix /\ CombinationsPresent) =>
        /\ \A i \in 1..Len(child_df) :
              LET row == MatrixRow(matrix, i - 1)
              IN /\ SumOver(row, DOMAIN row) = child_df[i].combinations
                 /\ NonZero(row) = child_df[i].combinations_collapsed
        /\ \A j \in 1..Len(parent_df) :
              LET col == MatrixCol(matrix, j - 1)
              IN /\ SumOver(col, DOMAIN col) = parent_df[j].combinations
                 /\ NonZero(col) = parent_df[j].combinations_collapsed

\* a child token seen twice with one parent: a row whose sum is not the
\* number of its non-zero cells
C18_Witness ==
    /\ apc = "ready" /\ DirectFreqMatrix /\ CombinationsPresent
    /\ \E i \in 1..Len(child_df) :
          child_df[i].combinations = 2 /\ child_df[i].combinations_collapsed = 1

\* the matrix generate_adjacency_matrix(skip, stat) builds when none is cached
FreshMatrix(skip, stat) ==
    GenerateAdjacencyMatrix([Self EXCEPT !.matrix = NoMatrix], skip, stat).matrix

\* C19: matrix cache keyed by relation and statistic.  The matrix a call of
\* generate_adjacency_matrix(skip, stat) returns is the one built from the
\* table of that relation and the column of that statistic, whatever calls
\* came before it.  Stated for the calls whose statistic is the one of the
\* cached matrix: there the two matrices hold values of one kind.
C19_MatrixPerArguments ==
    (/\ apc = "ready" /\ acall.op = "generate_adjacency_matrix" /\ acall.exc = NoExc
     /\ matrix.built /\ matrix_args.stat = acall.stat) =>
        matrix = FreshMatrix(acall.skip, acall.stat)

DerivedOps == {"compute_combinations", "compute_entropy", "compute_pmi"}

\* the derived-statistic method name has run on the engine
HasRun(name) ==
    IF name = "compute_combinations" THEN CombinationsPresent
    ELSE IF name = "compute_entropy" THEN EntropyPresent(Self, "entropy")
    ELSE name = "compute_pmi" /\ HasColumn(pair_df, "pmi")

\* the columns of the rows of df keep their values in df2
ColumnsKept(df, df2) ==
    /\ Len(df2) = Len(df)
    /\ \A i \in 1..Len(df) :
          \A c \in DOMAIN df[i] : c \in DOMAIN df2[i] /\ df2[i][c] = df[i][c]

\* C20: idempotence of the derived statistics.  A call of compute_combinations,
\* compute_entropy or compute_pmi on an engine on which that method has run
\* raises nothing and leaves every column of the child, parent, pair and
\* skip-pair tables with its values.
C20_Idempotent ==
    [][(apc = "ready" /\ acall'.op \in DerivedOps /\ HasRun(acall'.op)) =>
          /\ acall'.exc = NoExc
          /\ ColumnsKept(child_df, child_df') /\ ColumnsKept(parent_df, parent_df')
          /\ ColumnsKept(pair_df, pair_df') /\ ColumnsKept(skip_pair_df, skip_pair_df')]_vars

PmiPresent == HasColumn(pair_df, "pmi") /\ HasColumn(skip_pair_df, "skip_pmi")

\* C21: compute-if-absent.  On an engine whose derived columns are present the
\* method that computes them does nothing: it raises nothing and leaves every
\* attribute as it is; so compute_pmi when pmi and skip_pmi are on the pair
\* tables, compute_combinations and compute_entropy when theirs are on the
\* token tables.
C21_ComputeIfAbsent ==
    apc = "ready" =>
        /\ PmiPresent => ComputePmi(Self) = Self
        /\ (CombinationsPresent /\ EntropyPresent(Self, "skip_combinations")) =>
              ComputeCombinations(Self) = Self
        /\ (EntropyPresent(Self, "entropy") /\ EntropyPresent(Self, "entropy_skip")) =>
              ComputeEntropy(Self) = Self

\* C23: the store is read only.  No step of the engine, its construction or
\* any of compute_combinations, generate_adjacency_matrix, compute_entropy
\* and compute_pmi, changes a key or a count of the store's token, pair and
\* skip-pair tables.
C23_StoreUnchanged == [][store' = store]_vars

\* the engine was constructed from a store with pairs, every derived column
\* and a matrix are there, and a matrix was asked for last
C23_Witness ==
    /\ apc = "ready" /\ store.pair_stats # EmptyCounter
    /\ CombinationsPresent /\ EntropyPresent(Self, "entropy_skip") /\ PmiPresent
    /\ matrix.built /\ acall.op = "generate_adjacency_matrix"

\* the occurrences of the words of the child and of the parent category
SelectedTotal ==
    SumOver(store.token_stats,
            {w \in DOMAIN store.token_stats : w[2] \in {ChildUpos, ParentUpos}})

\* C24: the total N of PMI.  The engine's n_tokens, and the N in every pmi and
\* skip_pmi value, is the number of occurrences of the words of the child and
\* of the parent category; words of other categories are not counted.
C24_TotalOfSelectedCategories ==
    apc = "ready" =>
        /\ engine.n_tokens = SelectedTotal
        /\ HasColumn(pair_df, "pmi") =>
              \A i \in 1..Len(pair_df) : pair_df[i].pmi.n_tokens = SelectedTotal
        /\ HasColumn(skip_pair_df, "skip_pmi") =>
              \A i \in 1..Len(skip_pair_df) :
                 skip_pair_df[i].skip_pmi.n_tokens = SelectedTotal

\* the table holds one row for each word of category upos in the store's
\* token table, with its count, the counts never rising along the rows
RankedVocabulary(df, upos) ==
    LET words == {w \in DOMAIN store.token_stats : w[2] = upos}
    IN /\ Len(df) = Cardinality(words)
       /\ {<<df[i].token, df[i].upos>> : i \in 1..Len(df)} = words
       /\ \A i \in 1..Len(df) : df[i].freq = store.token_stats[<<df[i].token, upos>>]
       /\ \A i, j \in 1..Len(df) : i < j => df[i].freq >= df[j].freq

\* the pair table the matrix was built from
MatrixTable == IF matrix_args.skip THEN skip_pair_df ELSE pair_df

\* cell (i, j) of the matrix holds the statistic of the pair of the child at
\* index i and the parent at index j, and is 0 (never written) without one
CellsByRank ==
    \A i \in 0..(Len(child_df) - 1), j \in 0..(Len(parent_df) - 1) :
        LET rows == {k \in 1..Len(MatrixTable) :
                        /\ MatrixTable[k].child = child_df[i + 1].token
                        /\ MatrixTable[k].parent = parent_df[j + 1].token}
        IN IF rows = {} THEN <<i, j>> \notin DOMAIN matrix.cells
           ELSE /\ <<i, j>> \in DOMAIN matrix.cells
                /\ \A k \in rows : matrix.cells[<<i, j>>] = MatrixTable[k][matrix_args.stat]

\* C25: vocabulary ranking.  The child table holds one row per word of the
\* child category in the token table, by non-increasing frequency, its rows
\* numbered 0..n-1 in that order; so does the parent table; and row i and
\* column j of a matrix are those of the child at index i and of the parent
\* at index j.
C25_VocabularyRanking ==
    apc = "ready" =>
        /\ RankedVocabulary(child_df, ChildUpos)
        /\ RankedVocabulary(parent_df, ParentUpos)
        /\ matrix.built =>
              /\ matrix.shape = <<Len(child_df), Len(parent_df)>>
              /\ DOMAIN matrix.cells \subseteq
                    (0..(Len(child_df) - 1)) \X (0..(Len(parent_df) - 1))
              /\ CellsByRank

\* two children of different frequencies, and a matrix with a cell written
\* in the row of the rarer one
C25_Witness ==
    /\ apc = "ready" /\ matrix.built
    /\ Len(child_df) = 2 /\ child_df[1].freq > child_df[2].freq
    /\ \E j \in 0..(Len(parent_df) - 1) : <<1, j>> \in DOMAIN matrix.cells

CeilingedColumns == {"entropy_ceilinged", "entropy_skip_ceilinged"}

\* every ceilinged entropy of the table divides by log2 of the frequency f of
\* its token when f is below the length L of the other axis, else of L
DenominatorsOf(df, L) ==
    \A col \in CeilingedColumns : HasColumn(df, col) =>
        \A i \in 1..Len(df) :
            /\ df[i].freq < L => df[i][col].log2_of = df[i].freq
            /\ df[i].freq >= L => df[i][col].log2_of = L

\* C26: the denominator of the ceilinged entropy.  For a token of frequency f
\* on an axis whose other axis has L tokens (the parents for a child, the
\* children for a parent) the denominator is f when f < L and L when f >= L.
C26_CeilingedDenominator ==
    apc = "ready" =>
        /\ DenominatorsOf(child_df, Len(parent_df))
        /\ DenominatorsOf(parent_df, Len(child_df))

\* both sides of the boundary in one table: a child of frequency L - 1 and a
\* child of frequency L, with L parents
C26_Witness ==
    /\ apc = "ready" /\ HasColumn(child_df, "entropy_ceilinged")
    /\ \E i, k \in 1..Len(child_df) :
          /\ child_df[i].freq = Len(parent_df) - 1
          /\ child_df[k].freq = Len(parent_df)

EntropyNames == {"entropy", "entropy_skip"}

\* the entropies of the table that are not 0 in every base, those of rows or
\* columns with two or more non-zero cells, are taken in base 2
InBits(df) ==
    \A col \in EntropyNames : HasColumn(df, col) =>
        \A i \in 1..Len(df) : NonZero(df[i][col].of) >= 2 => df[i][col].base = "2"

\* C27: entropy in bits.  A row or column with one non-zero cell has entropy
\* 0, and one uniform over k partners has entropy log2(k): the logarithm of
\* the entropies is to base 2.  Stated for entropies of frequencies.
C27_EntropyBase2 ==
    (apc = "ready" /\ matrix.built /\ matrix_args.stat = "freq") =>
        InBits(child_df) /\ InBits(parent_df)

\* C28: completeness at the end of the input.  When read() without a sentence
\* limit has returned, the input exhausted, every sentence of the input is
\* digested and persisted, those after the last full batch too: sentences_seen
\* is the number of sentences of the input and the token counts sum to the
\* number of its lines, in the reader and in the checkpoint.
C28_CompleteAtEndOfInput ==
    (Returned /\ n_sentences = NoLimit) =>
        /\ sentences_seen = Len(AllSentences)
        /\ SumOver(token_stats, DOMAIN token_stats) = Total
        /\ Loaded("sentences_seen", 0) = Len(AllSentences)
        /\ SumOver(PersistedTables.token_stats, DOMAIN PersistedTables.token_stats) = Total

\* the cells c and d are one distribution up to the order of the partners:
\* scipy.stats.entropy normalises its argument, and a permutation keeps it
SameDistribution(c, d) ==
    \/ NonZero(c) <= 1 /\ NonZero(d) <= 1
    \/ /\ Cardinality(DOMAIN c) = Cardinality(DOMAIN d)
       /\ \E pi \in [DOMAIN c -> DOMAIN d] :
             /\ \A x, y \in DOMAIN c : x # y => pi[x] # pi[y]
             /\ \A x \in DOMAIN c :
                   c[x] * SumOver(d, DOMAIN d) = d[pi[x]] * SumOver(c, DOMAIN c)

\* the entropy_skip columns of df are the entropies of the skip relation:
\* line(m, i) the row or column of the skip-pair matrix m for the i-th token
SkipEntropyOfSkipPairs(df, m, side) ==
    \A i \in 1..Len(df) :
        LET line == IF side = 1 THEN MatrixRow(m, i - 1) ELSE MatrixCol(m, i - 1)
        IN /\ SameDistribution(df[i]["entropy_skip"].of, line)
           /\ SameDistribution(df[i]["entropy_skip_ceilinged"].value.of, line)

\* C29: independence of the skip relation in entropy.  The entropy_skip and
\* entropy_skip_ceilinged columns are a function of the skip-pair table and
\* the vocabularies only: the entropies of the rows and columns of the matrix
\* of the skip pairs, whatever the direct pair table holds.  Stated for
\* entropies of frequencies.
C29_SkipEntropyIndependent ==
    (apc = "ready" /\ EntropyPresent(Self, "entropy_skip")
        /\ matrix.built /\ matrix_args.stat = "freq"
        /\ FreshMatrix(TRUE, "freq").built) =>
        /\ SkipEntropyOfSkipPairs(child_df, FreshMatrix(TRUE, "freq"), 1)
        /\ SkipEntropyOfSkipPairs(parent_df, FreshMatrix(TRUE, "freq"), 2)

TokensOf(df) == {df[i].token : i \in 1..Len(df)}

\* rows of the pair table generate_adjacency_matrix(skip) iterates whose
\* child or parent is absent from the ranked vocabulary
AbsentRows(skip) ==
    LET t == IF skip THEN skip_pair_df ELSE pair_df
    IN {i \in 1..Len(t) :
          t[i].child \notin TokensOf(child_df) \/ t[i].parent \notin TokensOf(parent_df)}

\* C22: vocabulary consistency failure.  A call of generate_adjacency_matrix
\* that builds the matrix and meets a pair whose child or parent token is
\* absent from the ranked vocabulary fails: it raises, and it leaves no
\* matrix, so no cell written for that pair.
C22_AbsentTokenFails ==
    [][(/\ apc = "ready"
        /\ ~matrix.built
        /\ acall'.op = "generate_adjacency_matrix"
        /\ AbsentRows(acall'.skip) # {})
       => (acall'.exc # NoExc /\ ~matrix'.built)]_vars

\* the column col of df is in df2 as it is in df
SameColumn(df, df2, col) ==
    /\ Len(df2) = Len(df)
    /\ \A i \in 1..Len(df) : col \in DOMAIN df2[i] /\ df2[i][col] = df[i][col]

\* C30: per-column gate in compute_entropy.  A call of compute_entropy that
\* raises nothing computes each of the columns entropy and entropy_skip
\* exactly when it is absent: a column present on both tables is left as it
\* is, a column absent is there after the call, entropy_skip too when entropy
\* is present.
C30_PerColumnGate ==
    [][(apc = "ready" /\ acall'.op = "compute_entropy" /\ acall'.exc = NoExc) =>
          \A col \in EntropyNames :
             IF HasColumn(child_df, col) /\ HasColumn(parent_df, col)
             THEN SameColumn(child_df, child_df', col) /\ SameColumn(parent_df, parent_df', col)
             ELSE HasColumn(child_df', col) /\ HasColumn(parent_df', col)]_vars

\* the marginals of the values in the column key of the pair table df are
\* the counts of the words (child, child category), (parent, parent category)
QualifiedMarginals(df, key) ==
    \A i \in 1..Len(df) :
        key \in DOMAIN df[i] =>
            /\ df[i][key].w_ct = store.token_stats[<<df[i].child, ChildUpos>>]
            /\ df[i][key].p_ct = store.token_stats[<<df[i].parent, ParentUpos>>]

\* C31: PMI marginals are category-qualified.  For every pair (w, p) with a
\* PMI, the frequency used for w is the count of the word (w, child
\* category) and the one used for p the count of the word (p, parent
\* category), also when a text occurs under both categories.
C31_QualifiedMarginals ==
    apc = "ready" =>
        /\ QualifiedMarginals(pair_df, "pmi")
        /\ QualifiedMarginals(skip_pair_df, "skip_pmi")

\* every ceilinged entropy of the table is a defined value: its divisor
\* log2(denominator) is not 0, the denominator is above 1
DefinedCeilinged(df) ==
    \A col \in CeilingedColumns : HasColumn(df, col) =>
        \A i \in 1..Len(df) : df[i][col].log2_of > 1

\* C32: degenerate normalisation.  compute_entropy raises no error, and for
\* every token, one of frequency 1 and one without a partner too, the
\* ceilinged entropy is a defined value, never the result of dividing by
\* log2(1) = 0.
C32_DefinedNormalisation ==
    apc = "ready" =>
        /\ acall.op = "compute_entropy" => acall.exc = NoExc
        /\ DefinedCeilinged(child_df)
        /\ DefinedCeilinged(parent_df)

FileSet(a) == {a[i] : i \in 1..Len(a)}

\* a Corpus was constructed from argument and is open
Opened == pc = "ready" /\ argument # << >>

\* C33: the file set after open.  After a Corpus is constructed, the list of
\* files read() will stream is the sorted file set of the constructor
\* argument, whether or not the checkpoint of the tag holds items; and a
\* derived tag is the one every order of the same file set yields.
C33_FilesAfterOpen ==
    Opened =>
        /\ files = Sorted(argument)
        /\ cache_tag.derived =>
              \A a \in Arguments :
                 FileSet(a) = FileSet(argument) => DerivedTag(Sorted(a)) = cache_tag

====
